---- MODULE Spec2Model ----
(***************************************************************************)
(* The keypad-only IVR backend of src/app.py as a state machine.           *)
(*                                                                         *)
(* State: the process-wide session store CALL_STATE, the module constant    *)
(* OFFICE_MANAGER_NUMBER the process was started with, the call whose      *)
(* webhooks are being delivered, `last`: the webhook request handled last  *)
(* together with what the handler produced for it (the TwiML document and  *)
(* the calls it made to the SMS helpers), and `direct`: how many requests  *)
(* so far were not the provider following the previous document.  The      *)
(* Twilio environment variables are read by os.getenv at every send, so    *)
(* they are an input of each send.  `scenario` is a history variable: how  *)
(* many steps of the spec's end-to-end scenario B the latest requests of   *)
(* the call have completed.  `parked` is the other call of a two-call      *)
(* behaviour: its identity and the request handled last for it, while the  *)
(* webhooks of `call` are being delivered.  `pending` holds the requests   *)
(* of the call that the event loop is processing in parallel: each has      *)
(* still to read its form, or to run the rest of its handler, or is done.   *)
(*                                                                         *)
(* Python values: a str that the code inspects character by character      *)
(* (Digits, the intent query parameter) is a sequence of one-character     *)
(* strings; an Optional value is <<>> (None) or <<v>>; a dict is a function *)
(* whose DOMAIN is the set of keys present.                                *)
(***************************************************************************)
EXTENDS Integers, Sequences, FiniteSets, TLC

VARIABLES CALL_STATE, OFFICE_MANAGER_NUMBER, call, last, direct, scenario, parked, pending

vars == <<CALL_STATE, OFFICE_MANAGER_NUMBER, call, last, direct, scenario, parked, pending>>

(***************************************************************************)
(* Program constants                                                       *)
(***************************************************************************)
PRACTICE_NAME == "Luke's Office"

OFFICE_HOURS_TEXT == "Our office hours are Monday through Friday, 8 A M to 5 P M."

SCHEDULING_LINK == "https://app.nexhealth.com/appt/sonoran-hills-dental"

DIRECTIONS_LINK == "https://maps.google.com/?q=4909+E+Chandler+Blvd+Ste+501,+Phoenix,+AZ+85048"

MAX_VOICEMAIL_SECONDS == 180

GATHER_NUM_DIGITS == 1

GATHER_TIMEOUT == 7

(***************************************************************************)
(* Python built-ins the handlers use                                       *)
(***************************************************************************)
None == <<>>

Some(v) == <<v>>

WHITESPACE == {" ", "\t", "\n"}

DIGIT_CHARS == <<"0", "1", "2", "3", "4", "5", "6", "7", "8", "9">>

\* the value of a decimal digit
DIGIT_VALUE == [c \in {DIGIT_CHARS[i] : i \in 1..10} |->
                   CHOOSE i \in 0..9 : DIGIT_CHARS[i + 1] = c]

IsDigit(ch) == ch \in DOMAIN DIGIT_VALUE

LOWER_CHARS == <<"a", "b", "c", "d", "e", "f", "g", "h", "i", "j", "k", "l", "m",
                 "n", "o", "p", "q", "r", "s", "t", "u", "v", "w", "x", "y", "z">>

UPPER_CHARS == <<"A", "B", "C", "D", "E", "F", "G", "H", "I", "J", "K", "L", "M",
                 "N", "O", "P", "Q", "R", "S", "T", "U", "V", "W", "X", "Y", "Z">>

TO_LOWER == [c \in {UPPER_CHARS[i] : i \in 1..26} |->
                LOWER_CHARS[CHOOSE i \in 1..26 : UPPER_CHARS[i] = c]]

TO_UPPER == [c \in {LOWER_CHARS[i] : i \in 1..26} |->
                UPPER_CHARS[CHOOSE i \in 1..26 : LOWER_CHARS[i] = c]]

\* str.lower() / str.upper(), character by character
LowerChar(ch) == IF ch \in DOMAIN TO_LOWER THEN TO_LOWER[ch] ELSE ch

UpperChar(ch) == IF ch \in DOMAIN TO_UPPER THEN TO_UPPER[ch] ELSE ch

Lower(s) == [i \in 1..Len(s) |-> LowerChar(s[i])]

Upper(s) == [i \in 1..Len(s) |-> UpperChar(s[i])]

\* str.strip(): drops the leading and the trailing whitespace
RECURSIVE LStrip(_)
LStrip(s) == IF Len(s) > 0 /\ Head(s) \in WHITESPACE THEN LStrip(Tail(s)) ELSE s

RECURSIVE RStrip(_)
RStrip(s) == IF Len(s) > 0 /\ s[Len(s)] \in WHITESPACE
             THEN RStrip(SubSeq(s, 1, Len(s) - 1))
             ELSE s

Strip(s) == RStrip(LStrip(s))

\* The value of a run of decimal digits, with the single underscores int() allows
\* between digits; None when the run is not a numeral.
RECURSIVE DigitRun(_, _, _)
DigitRun(s, acc, prevDigit) ==
    IF Len(s) = 0
    THEN IF prevDigit THEN Some(acc) ELSE None
    ELSE IF IsDigit(Head(s))
         THEN DigitRun(Tail(s), acc * 10 + DIGIT_VALUE[Head(s)], TRUE)
         ELSE IF Head(s) = "_" /\ prevDigit /\ Len(s) > 1 /\ IsDigit(s[2])
              THEN DigitRun(Tail(s), acc, FALSE)
              ELSE None

\* int(d): surrounding whitespace ignored, an optional sign, then decimal digits;
\* None stands for the ValueError
PyInt(d) ==
    LET t == Strip(d)
        signed == Len(t) > 0 /\ Head(t) \in {"+", "-"}
        body == IF signed THEN Tail(t) ELSE t
        mag == DigitRun(body, 0, FALSE)
    IN IF mag = None THEN None
       ELSE IF signed /\ Head(t) = "-" THEN Some(0 - mag[1]) ELSE mag

\* str(n) of a non-negative int, as characters
RECURSIVE PyStrNat(_)
PyStrNat(n) == IF n < 10 THEN <<DIGIT_CHARS[n + 1]>>
               ELSE Append(PyStrNat(n \div 10), DIGIT_CHARS[(n % 10) + 1])

\* f"{v}" of an Optional[int]
PyFormatInt(opt) == IF opt = None THEN <<"N", "o", "n", "e">>
                    ELSE IF opt[1] < 0 THEN <<"-">> \o PyStrNat(0 - opt[1])
                    ELSE PyStrNat(opt[1])

\* dict.get(key) -> Optional
Get(d, key) == IF key \in DOMAIN d THEN Some(d[key]) ELSE None

\* d[key] = v
Put(d, key, v) == [k \in DOMAIN d \cup {key} |-> IF k = key THEN v ELSE d[k]]

EmptyDict == [k \in {} |-> None]

\* list.insert(i, x), i a Python (0-based) index within the list
Insert(lst, i, x) == SubSeq(lst, 1, i) \o <<x>> \o SubSeq(lst, i + 1, Len(lst))

(***************************************************************************)
(* Inputs of the webhook surface, drawn from small sets                    *)
(***************************************************************************)
\* requests posted outside the flow of the call (not issued by the provider for
\* the previous document) that a behaviour may contain
MaxDirect == 1

\* form field CallSid: absent (the default "") or a provider-assigned identifier
CallSids == {"", "CA1"}

CALLER == "+15550100"

OFFICE == "+15550199"

\* the requests the second call of a two-call behaviour makes before its
\* caller hangs up
MaxSecond == 4

\* form field From: absent (the default "") or the caller's number
FromNumbers == {"", CALLER}

\* the keys a caller presses at a one-digit collection
Keys == {<<"0">>, <<"1">>, <<"2">>, <<"3">>, <<"5">>}

\* form field Digits: absent (the default ""), a key, or a string no single key
\* press produces but an HTTP client can post
DigitInputs == Keys \cup {<<>>, <<"9">>, <<"*">>, <<"1", "0">>, <<" ", "5">>}

S_emergency == <<"e", "m", "e", "r", "g", "e", "n", "c", "y">>

S_appointment == <<"a", "p", "p", "o", "i", "n", "t", "m", "e", "n", "t">>

S_billing == <<"b", "i", "l", "l", "i", "n", "g">>

S_general == <<"g", "e", "n", "e", "r", "a", "l">>

S_unknown == <<"u", "n", "k", "n", "o", "w", "n">>

\* query parameter intent of a posted request: absent, a value the record
\* actions carry, and a differently cased and padded spelling of another
IntentParams == {None, Some(S_general), Some(<<" ">> \o Upper(S_emergency))}

RECORDING == "https://api.twilio.com/Recordings/RE1"

\* form field RecordingUrl: absent (None), empty, or a locator
RecordingUrls == {None, Some(""), Some(RECORDING)}

\* what client.messages.create does: returns, or raises an exception of this class
ProviderOutcomes == {"accept", "TwilioRestException", "ConnectionError"}

\* exception class -> its base classes (itself included)
Bases(cls) ==
    CASE cls = "TwilioRestException" -> {"TwilioRestException", "TwilioException", "Exception", "BaseException"}
      [] cls = "ConnectionError" -> {"ConnectionError", "OSError", "Exception", "BaseException"}
      [] OTHER -> {cls, "BaseException"}

\* os.getenv(name) of a credential: unset, set but empty, or set
EnvValues == {None, Some(""), Some("set")}

Truthy(opt) == opt # None /\ opt[1] # ""

(***************************************************************************)
(* Session store                                                           *)
(***************************************************************************)
SessionKey(call_sid) == IF call_sid = "" THEN "UNKNOWN_CALLSID" ELSE call_sid

\* _get_state assigning a new record on every lookup
GetStateStore_Fresh(store, call_sid) == Put(store, SessionKey(call_sid), EmptyDict)

\* _get_state: the store after the lookup (the record is created on demand)
GetStateStore(store, call_sid) ==
    IF SessionKey(call_sid) \in DOMAIN store
    THEN store
    ELSE Put(store, SessionKey(call_sid), EmptyDict)

\* a handler that took the session when its request arrived, before the other
\* request in flight had stored anything
GetState_Snapshot(store, call_sid) ==
    IF pending.reqs # <<>>
    THEN GetStateStore(pending.snapshot, call_sid)[SessionKey(call_sid)]
    ELSE GetStateStore(store, call_sid)[SessionKey(call_sid)]

\* the record _get_state returns
GetState(store, call_sid) == GetStateStore(store, call_sid)[SessionKey(call_sid)]

\* the store after the handler's assignments to the record st of call_sid
SaveState(store, call_sid, st) == Put(GetStateStore(store, call_sid), SessionKey(call_sid), st)

(***************************************************************************)
(* SMS helpers                                                             *)
(***************************************************************************)
\* what a helper call did: its arguments, the exception it let through ("" when
\* it returned), the pair it returned, and what client.messages.create did
\* ("" when the helper did not get that far)
SmsResult(fn, to, body, raised, ok, err, provider) ==
    [fn |-> fn, to |-> to, body |-> body, raised |-> raised, ok |-> ok, err |-> err,
     provider |-> provider]

\* send_sms_safe without its last clause, except Exception
SendSmsExcept_OnlyTwilio(to, body, raised) ==
    IF "TwilioRestException" \in Bases(raised)
    THEN SmsResult("send_sms_safe", to, body, "", FALSE, "TwilioRestException: {e}", raised)
    ELSE SmsResult("send_sms_safe", to, body, raised, FALSE, "", raised)

\* the except clauses of send_sms_safe, in order
SendSmsExcept(to, body, raised) ==
    IF "TwilioRestException" \in Bases(raised)
    THEN SmsResult("send_sms_safe", to, body, "", FALSE, "TwilioRestException: {e}", raised)
    ELSE IF "Exception" \in Bases(raised)
         THEN SmsResult("send_sms_safe", to, body, "", FALSE, "Exception: {e}", raised)
         ELSE SmsResult("send_sms_safe", to, body, raised, FALSE, "", raised)

\* send_sms_safe(to_number, body), with the provider's outcome of the dispatch
send_sms_safe(env, to_number, body, outcome) ==
    IF ~Truthy(env.TWILIO_ACCOUNT_SID) \/ ~Truthy(env.TWILIO_AUTH_TOKEN)
          \/ ~Truthy(env.TWILIO_PHONE_NUMBER)
    THEN SmsResult("send_sms_safe", to_number, body, "", FALSE,
                   "Missing env vars: TWILIO_ACCOUNT_SID / TWILIO_AUTH_TOKEN / TWILIO_PHONE_NUMBER",
                   "")
    ELSE IF to_number = ""
         THEN SmsResult("send_sms_safe", to_number, body, "", FALSE, "Missing destination number", "")
         ELSE IF outcome = "accept"
              THEN SmsResult("send_sms_safe", to_number, body, "", TRUE, "Sent", outcome)
              ELSE SendSmsExcept(to_number, body, outcome)

\* notify_office_safe(message)
notify_office_safe(office, env, message, outcome) ==
    IF office = ""
    THEN SmsResult("notify_office_safe", office, message, "", FALSE, "OFFICE_MANAGER_NUMBER not set", "")
    ELSE [send_sms_safe(env, office, message, outcome) EXCEPT !.fn = "notify_office_safe"]

(***************************************************************************)
(* TwiML                                                                   *)
(***************************************************************************)
Url(path) == [path |-> path, intent |-> None]

UrlIntent(path, intent) == [path |-> path, intent |-> Some(intent)]

NoUrl == Url("")

Say(text) == [verb |-> "Say", text |-> text, target |-> NoUrl, n |-> 0, timeout |-> 0]

Gather(action, text) ==
    [verb |-> "Gather", text |-> text, target |-> Url(action), n |-> GATHER_NUM_DIGITS,
     timeout |-> GATHER_TIMEOUT]

Redirect(path) == [verb |-> "Redirect", text |-> "", target |-> Url(path), n |-> 0, timeout |-> 0]

\* a record directive with the shorter limit of 120 seconds
Record_Short(intent) ==
    [verb |-> "Record", text |-> "", target |-> UrlIntent("/twilio/recording-complete", intent),
     n |-> 120, timeout |-> 0]

Record(intent) ==
    [verb |-> "Record", text |-> "", target |-> UrlIntent("/twilio/recording-complete", intent),
     n |-> MAX_VOICEMAIL_SECONDS, timeout |-> 0]

Hangup == [verb |-> "Hangup", text |-> "", target |-> NoUrl, n |-> 0, timeout |-> 0]

END_NAV_PROMPT == "You may hang up now. Press 1 to return to the main menu. Press 2 to return to scheduling, billing or insurance, and general practice information."

\* _end_options closing the call without the navigation collection
end_options_NoNavigation(vr, intro) ==
    (IF intro # "" THEN vr \o <<Say(intro)>> ELSE vr) \o <<Say("Goodbye."), Hangup>>

\* _end_options(vr, intro)
end_options(vr, intro) ==
    (IF intro # "" THEN vr \o <<Say(intro)>> ELSE vr)
      \o <<Gather("/twilio/end-nav", END_NAV_PROMPT), Say("Goodbye."), Hangup>>

(***************************************************************************)
(* Requests: what the provider posts next, and what any client can post    *)
(***************************************************************************)
\* a webhook request: the URL (path and intent query parameter) and the form
\* fields the handlers read; an absent Digits field reads as ""
Request(url, call_sid, from_number, digit, recording_url) ==
    [url |-> url.path, intent |-> url.intent, CallSid |-> call_sid, From |-> from_number,
     Digits |-> digit, RecordingUrl |-> recording_url]

\* the requests the provider can issue while it executes the verbs vs of a
\* document for the call cl: a key press at a Gather posts to its action, no input
\* falls through to the next verb; a Redirect posts to its URL; a Record posts
\* the recording to its action, or falls through when nothing was recorded
RECURSIVE FollowUps(_, _)
FollowUps(vs, cl) ==
    IF vs = <<>> THEN {}
    ELSE LET v == Head(vs)
         IN CASE v.verb = "Say" -> FollowUps(Tail(vs), cl)
              [] v.verb = "Gather" ->
                    {Request(v.target, cl.CallSid, cl.From, k, None) : k \in Keys}
                      \cup FollowUps(Tail(vs), cl)
              [] v.verb = "Redirect" -> {Request(v.target, cl.CallSid, cl.From, <<>>, None)}
              [] v.verb = "Record" ->
                    {Request(v.target, cl.CallSid, cl.From, <<>>, Some(RECORDING))}
                      \cup FollowUps(Tail(vs), cl)
              [] OTHER -> {}

\* the provider's next requests: the call starts at /twilio/voice, then follows
\* the document it was answered with
ProviderRequests ==
    IF last.status = 0
    THEN {Request(Url("/twilio/voice"), call.CallSid, call.From, <<>>, None)}
    ELSE FollowUps(last.twiml, call)

DIGIT_PATHS == {"/twilio/gate", "/twilio/emergency/pain-save", "/twilio/emergency/symptoms-save",
                "/twilio/emergency/route-handle", "/twilio/business/menu-handle",
                "/twilio/business/appointments-handle", "/twilio/business/general-handle",
                "/twilio/end-nav"}

PROMPT_PATHS == {"/twilio/voice", "/twilio/emergency/pain", "/twilio/emergency/symptoms",
                 "/twilio/emergency/route", "/twilio/business/menu",
                 "/twilio/business/appointments", "/twilio/business/billing-voicemail",
                 "/twilio/business/general-info"}

\* the routes the service defines
ROUTES == DIGIT_PATHS \cup PROMPT_PATHS \cup {"/twilio/recording-complete"}

\* the requests to a route that any HTTP client can post with the call's
\* identifier: the fields the route's handler does not read are left absent
DirectRequests(path) ==
    IF path \in DIGIT_PATHS
    THEN {Request(Url(path), call.CallSid, call.From, d, None) : d \in DigitInputs}
    ELSE IF path = "/twilio/recording-complete"
         THEN {Request([path |-> path, intent |-> i], call.CallSid, call.From, <<>>, r) :
                  i \in IntentParams, r \in RecordingUrls}
         ELSE {Request(Url(path), call.CallSid, call.From, <<>>, None)}

\* the requests that can arrive at a route in this state, each with whether it
\* is the provider following the previous document
ArrivalsAt(path) ==
    LET inflow == {r \in ProviderRequests : r.url = path}
    IN IF parked.second /\ parked.served >= MaxSecond
       THEN {}
       ELSE {[req |-> r, inflow |-> TRUE] : r \in inflow}
              \cup (IF direct < MaxDirect
                    THEN {[req |-> r, inflow |-> FALSE] : r \in DirectRequests(path) \ inflow}
                    ELSE {})

\* Scenario B (spec section 8), as the caller's inputs: 1 at the gate, then 5, 1
\* and 1 at the three collections the provider is led to. Steps 1, 3, 5, 7 are
\* these inputs, steps 2, 4, 6 the provider following the answer to the one before.
SCENARIO_B_KEYS == <<<<"1">>, <<>>, <<"5">>, <<>>, <<"1">>, <<>>, <<"1">>>>

ScenarioLength == Len(SCENARIO_B_KEYS)

\* the scenario's progress after the arrival a: a gate request with digit 1
\* starts it, the provider's next request with the scripted input continues it,
\* anything else abandons it
ScenarioAfter(a) ==
    IF a.req.url = "/twilio/gate" /\ a.req.Digits = SCENARIO_B_KEYS[1] THEN 1
    ELSE IF scenario \in 1..(ScenarioLength - 1) /\ a.inflow
              /\ a.req.Digits = SCENARIO_B_KEYS[scenario + 1]
         THEN scenario + 1
         ELSE 0

\* the arrival is counted
Deliver(a) ==
    /\ direct' = IF a.inflow THEN direct ELSE direct + 1
    /\ scenario' = ScenarioAfter(a)
    /\ parked' = IF parked.second THEN [parked EXCEPT !.served = @ + 1] ELSE parked
    /\ pending' = pending

Line(label, value) == [label |-> label, value |-> value]

Raised(calls) == \E i \in 1..Len(calls) : calls[i].raised # ""

\* a second helper call is made only when the first one returned
Then(first, second) == IF first.raised # "" THEN <<first>> ELSE <<first, second>>

\* the handler returns Response(content=str(vr), media_type="application/xml"),
\* unless a helper raised: the framework then answers 500 without a document
Finish(req, store, calls, vr) ==
    /\ CALL_STATE' = store
    /\ last' = [req |-> req,
                status |-> IF Raised(calls) THEN 500 ELSE 200,
                media_type |-> IF Raised(calls) THEN "" ELSE "application/xml",
                twiml |-> IF Raised(calls) THEN <<>> ELSE vr,
                calls |-> calls]
    /\ UNCHANGED <<OFFICE_MANAGER_NUMBER, call>>

\* st = _get_state(call_sid); st["from_number"] = from_number
StateWithFrom(store, req) == Put(GetState(store, req.CallSid), "from_number", req.From)

SORRY_NO_INPUT == "Sorry, I didn't get that."

SORRY_INVALID == "Sorry, that wasn't a valid selection."

\* symptoms_text of emergency_route_handle and recording_complete
SymptomsText(st) ==
    IF Get(st, "symptoms_flag") = Some(TRUE) THEN "Yes"
    ELSE IF Get(st, "symptoms_flag") = Some(FALSE) THEN "No"
    ELSE "Unknown"

(***************************************************************************)
(* Step 1 + 2: 911 disclaimer and the emergency gate                       *)
(***************************************************************************)
VoiceTwiml ==
    <<Say("If this is a life threatening emergency, please hang up and dial 9 1 1."),
      Gather("/twilio/gate",
             "Press 1 if you are experiencing a dental emergency. Press 2 if you are calling about scheduling, billing or insurance, or general practice information."),
      Say(SORRY_NO_INPUT),
      Redirect("/twilio/voice")>>

twilio_voice(req) == Finish(req, CALL_STATE, <<>>, VoiceTwiml)

\* twilio_gate starting the emergency branch with a zero pain level
GateState_ZeroPain(st, digit) ==
    IF digit = <<"1">> THEN Put(Put(st, "path", "emergency"), "pain_level", 0)
    ELSE IF digit = <<"2">> THEN Put(st, "path", "business")
    ELSE st

\* twilio_gate taking every input other than 1 as the business choice
GateState_ElseBusiness(st, digit) ==
    IF digit = <<"1">> THEN Put(st, "path", "emergency")
    ELSE Put(st, "path", "business")

GateState(st, digit) ==
    IF digit = <<"1">> THEN Put(st, "path", "emergency")
    ELSE IF digit = <<"2">> THEN Put(st, "path", "business")
    ELSE st

GateTwiml(digit) ==
    IF digit = <<"1">> THEN <<Redirect("/twilio/emergency/pain")>>
    ELSE IF digit = <<"2">> THEN <<Redirect("/twilio/business/menu")>>
    ELSE <<Say(SORRY_INVALID), Redirect("/twilio/voice")>>

twilio_gate(req) ==
    Finish(req,
           SaveState(CALL_STATE, req.CallSid, GateState(StateWithFrom(CALL_STATE, req), req.Digits)),
           <<>>,
           GateTwiml(req.Digits))

(***************************************************************************)
(* Emergency workflow: pain -> symptoms -> route                           *)
(***************************************************************************)
PainTwiml ==
    <<Gather("/twilio/emergency/pain-save",
             "Please enter your current pain level. Press a number from 1 to 9. Press 1 for the lowest pain. Press 9 for the highest pain."),
      Say(SORRY_NO_INPUT),
      Redirect("/twilio/emergency/pain")>>

emergency_pain(req) ==
    Finish(req,
           SaveState(CALL_STATE, req.CallSid, Put(StateWithFrom(CALL_STATE, req), "path", "emergency")),
           <<>>,
           PainTwiml)

\* _digits_to_int
digits_to_int(d) == PyInt(d)

\* the range check with its upper end excluded
PainRejected_Below9(pain) == pain = None \/ pain[1] < 1 \/ pain[1] >= 9

\* pain is None or pain < 1 or pain > 9
PainRejected(pain) == pain = None \/ pain[1] < 1 \/ pain[1] > 9

PainSaveState(st, digit) ==
    IF PainRejected(digits_to_int(digit)) THEN st
    ELSE Put(st, "pain_level", digits_to_int(digit)[1])

PainSaveTwiml(digit) ==
    IF PainRejected(digits_to_int(digit))
    THEN <<Say("Invalid entry. Please press a number from 1 to 9."),
           Redirect("/twilio/emergency/pain")>>
    ELSE <<Redirect("/twilio/emergency/symptoms")>>

emergency_pain_save(req) ==
    Finish(req,
           SaveState(CALL_STATE, req.CallSid,
                     PainSaveState(StateWithFrom(CALL_STATE, req), req.Digits)),
           <<>>,
           PainSaveTwiml(req.Digits))

SymptomsTwiml ==
    <<Gather("/twilio/emergency/symptoms-save",
             "Press 1 if you are experiencing swelling, bleeding, or trauma to the dental region. Press 2 if you are not."),
      Say(SORRY_NO_INPUT),
      Redirect("/twilio/emergency/symptoms")>>

emergency_symptoms(req) == Finish(req, CALL_STATE, <<>>, SymptomsTwiml)

\* _yesno_from_digit reading every digit but 1 as no
yesno_from_digit_Else(d) ==
    IF d = <<"1">> THEN Some(TRUE)
    ELSE IF d # <<>> THEN Some(FALSE)
    ELSE None

\* _yesno_from_digit
yesno_from_digit(d) ==
    IF d = <<"1">> THEN Some(TRUE)
    ELSE IF d = <<"2">> THEN Some(FALSE)
    ELSE None

SymptomsSaveState(st, digit) ==
    IF yesno_from_digit(digit) = None THEN st
    ELSE Put(st, "symptoms_flag", yesno_from_digit(digit)[1])

\* a symptoms-save that goes on to the routing step whatever was pressed
SymptomsSaveTwiml_Advance(digit) == <<Redirect("/twilio/emergency/route")>>

SymptomsSaveTwiml(digit) ==
    IF yesno_from_digit(digit) = None
    THEN <<Say("Invalid entry. Press 1 for yes. Press 2 for no."),
           Redirect("/twilio/emergency/symptoms")>>
    ELSE <<Redirect("/twilio/emergency/route")>>

emergency_symptoms_save(req) ==
    Finish(req,
           SaveState(CALL_STATE, req.CallSid,
                     SymptomsSaveState(StateWithFrom(CALL_STATE, req), req.Digits)),
           <<>>,
           SymptomsSaveTwiml(req.Digits))

RouteTwiml ==
    <<Gather("/twilio/emergency/route-handle",
             "Press 1 to send your answers to the first available team member. Press 2 to record a voicemail to further explain your symptoms."),
      Say(SORRY_NO_INPUT),
      Redirect("/twilio/emergency/route")>>

emergency_route(req) == Finish(req, CALL_STATE, <<>>, RouteTwiml)

\* the message of the notify-team option
EmergencyMessage(st, from_number) ==
    <<Line("{PRACTICE_NAME} - After-hours EMERGENCY intake", <<>>),
      Line("Caller: ", from_number),
      Line("Pain (1-9): ", PyFormatInt(Get(st, "pain_level"))),
      Line("Swelling/Bleeding/Trauma: ", SymptomsText(st)),
      Line("Action: ", "Please call back ASAP.")>>

RouteHandleCalls(st, from_number, digit, environ, outcome) ==
    IF digit = <<"1">>
    THEN <<notify_office_safe(OFFICE_MANAGER_NUMBER, environ,
                              EmergencyMessage(st, from_number), outcome)>>
    ELSE <<>>

EMERGENCY_SENT == "Your emergency intake information has been sent to the first available team member."

RouteHandleTwiml(digit) ==
    IF digit = <<"1">>
    THEN end_options(<<>>, EMERGENCY_SENT)
    ELSE IF digit = <<"2">>
         THEN <<Say("Please leave a voicemail after the tone. Please include your name and your callback number. Please do not include sensitive medical details. When you are finished, you may hang up."),
                Record(S_emergency)>>
         ELSE <<Say(SORRY_INVALID), Redirect("/twilio/emergency/route")>>

\* emergency_route_handle telling the caller when the notification failed
emergency_route_handle_Reports(req, environ, outcome) ==
    LET st == Put(StateWithFrom(CALL_STATE, req), "path", "emergency")
        calls == RouteHandleCalls(st, req.From, req.Digits, environ, outcome)
    IN Finish(req,
              SaveState(CALL_STATE, req.CallSid, st),
              calls,
              IF req.Digits = <<"1">> /\ ~calls[1].ok
              THEN end_options(<<>>, "We could not reach the team right now.")
              ELSE RouteHandleTwiml(req.Digits))

emergency_route_handle(req, environ, outcome) ==
    LET st == Put(StateWithFrom(CALL_STATE, req), "path", "emergency")
    IN Finish(req,
              SaveState(CALL_STATE, req.CallSid, st),
              RouteHandleCalls(st, req.From, req.Digits, environ, outcome),
              RouteHandleTwiml(req.Digits))

(***************************************************************************)
(* Business workflow: appointments / billing / general                     *)
(***************************************************************************)
MenuTwiml ==
    <<Gather("/twilio/business/menu-handle",
             "Press 1 for appointments. Press 2 for billing or insurance. Press 3 for general practice information."),
      Say(SORRY_NO_INPUT),
      Redirect("/twilio/business/menu")>>

business_menu(req) == Finish(req, CALL_STATE, <<>>, MenuTwiml)

\* business_menu_handle sending option 2 to the general information step
MenuHandleTwiml_BillingToGeneral(digit) ==
    IF digit = <<"1">> THEN <<Redirect("/twilio/business/appointments")>>
    ELSE IF digit = <<"2">> THEN <<Redirect("/twilio/business/general-info")>>
    ELSE IF digit = <<"3">> THEN <<Redirect("/twilio/business/general-info")>>
    ELSE <<Say(SORRY_INVALID), Redirect("/twilio/business/menu")>>

\* business_menu_handle sending an invalid selection back to the entry
MenuHandleTwiml_ToEntry(digit) ==
    IF digit = <<"1">> THEN <<Redirect("/twilio/business/appointments")>>
    ELSE IF digit = <<"2">> THEN <<Redirect("/twilio/business/billing-voicemail")>>
    ELSE IF digit = <<"3">> THEN <<Redirect("/twilio/business/general-info")>>
    ELSE <<Say(SORRY_INVALID), Redirect("/twilio/voice")>>

MenuHandleTwiml(digit) ==
    IF digit = <<"1">> THEN <<Redirect("/twilio/business/appointments")>>
    ELSE IF digit = <<"2">> THEN <<Redirect("/twilio/business/billing-voicemail")>>
    ELSE IF digit = <<"3">> THEN <<Redirect("/twilio/business/general-info")>>
    ELSE <<Say(SORRY_INVALID), Redirect("/twilio/business/menu")>>

business_menu_handle(req) ==
    Finish(req,
           SaveState(CALL_STATE, req.CallSid, Put(StateWithFrom(CALL_STATE, req), "path", "business")),
           <<>>,
           MenuHandleTwiml(req.Digits))

AppointmentsTwiml ==
    <<Gather("/twilio/business/appointments-handle",
             "Press 1 to request a callback at the earliest operating hours. Press 2 to receive a scheduling link by text message. Press 3 to leave a voicemail about scheduling."),
      Say(SORRY_NO_INPUT),
      Redirect("/twilio/business/appointments")>>

business_appointments(req) == Finish(req, CALL_STATE, <<>>, AppointmentsTwiml)

CallbackMessage(from_number) ==
    <<Line("{PRACTICE_NAME} - After-hours APPOINTMENT callback request", <<>>),
      Line("Caller: ", from_number),
      Line("Action: ", "Please contact at earliest operating hours.")>>

SchedulingSms == <<Line("Book an appointment with {PRACTICE_NAME}: ", SCHEDULING_LINK)>>

LinkSentMessage(from_number) ==
    <<Line("{PRACTICE_NAME} - After-hours APPOINTMENT link sent", <<>>),
      Line("Caller: ", from_number),
      Line("Action: ", "Scheduling link was sent.")>>

TEXT_SENT == "Text sent."

SCHEDULING_NOT_SENT == "We could not send a text right now. Please call back during business hours."

DIRECTIONS_NOT_SENT == "We could not send directions by text right now."

\* the closing line of the scheduling-link option: if ok ... else ...
SchedulingClosing(ok) == IF ok THEN TEXT_SENT ELSE SCHEDULING_NOT_SENT

\* the office notified of the link only when the text to the caller was sent
AppointmentsCalls_NotifyIfSent(from_number, digit, environ, outcome, outcome2) ==
    IF digit = <<"1">>
    THEN <<notify_office_safe(OFFICE_MANAGER_NUMBER, environ, CallbackMessage(from_number), outcome)>>
    ELSE IF digit = <<"2">>
         THEN IF send_sms_safe(environ, from_number, SchedulingSms, outcome).ok
              THEN <<send_sms_safe(environ, from_number, SchedulingSms, outcome),
                     notify_office_safe(OFFICE_MANAGER_NUMBER, environ,
                                        LinkSentMessage(from_number), outcome2)>>
              ELSE <<send_sms_safe(environ, from_number, SchedulingSms, outcome)>>
         ELSE <<>>

AppointmentsCalls(from_number, digit, environ, outcome, outcome2) ==
    IF digit = <<"1">>
    THEN <<notify_office_safe(OFFICE_MANAGER_NUMBER, environ, CallbackMessage(from_number), outcome)>>
    ELSE IF digit = <<"2">>
         THEN Then(send_sms_safe(environ, from_number, SchedulingSms, outcome),
                   notify_office_safe(OFFICE_MANAGER_NUMBER, environ,
                                      LinkSentMessage(from_number), outcome2))
         ELSE <<>>

AppointmentsHandleTwiml(digit, calls) ==
    IF digit = <<"1">>
    THEN end_options(<<>>, "Your callback request has been sent. We will contact you at the earliest operating hours.")
    ELSE IF digit = <<"2">>
         THEN end_options(<<Say("A scheduling link will be sent by text message now.")>>,
                          SchedulingClosing(calls[1].ok))
         ELSE IF digit = <<"3">>
              THEN <<Say("Please leave a voicemail about scheduling. Include your name and your callback number. Please do not include sensitive medical details. When you are finished, you may hang up."),
                     Record(S_appointment)>>
              ELSE <<Say(SORRY_INVALID), Redirect("/twilio/business/appointments")>>

business_appointments_handle(req, environ, outcome, outcome2) ==
    LET calls == AppointmentsCalls(req.From, req.Digits, environ, outcome, outcome2)
    IN Finish(req,
              SaveState(CALL_STATE, req.CallSid,
                        Put(StateWithFrom(CALL_STATE, req), "intent", S_appointment)),
              calls,
              AppointmentsHandleTwiml(req.Digits, calls))

BillingVoicemailTwiml ==
    <<Say("Please leave a voicemail about billing or insurance. Include your name and your callback number. Please do not include sensitive medical details. When you are finished, you may hang up."),
      Record(S_billing)>>

business_billing_voicemail(req) == Finish(req, CALL_STATE, <<>>, BillingVoicemailTwiml)

GeneralInfoTwiml ==
    <<Say(OFFICE_HOURS_TEXT),
      Gather("/twilio/business/general-handle",
             "Press 1 to receive directions by text message. Press 2 to leave a voicemail with a general question."),
      Say(SORRY_NO_INPUT),
      Redirect("/twilio/business/general-info")>>

business_general_info(req) == Finish(req, CALL_STATE, <<>>, GeneralInfoTwiml)

DirectionsSms == <<Line("Directions to {PRACTICE_NAME}: ", DIRECTIONS_LINK)>>

DirectionsMessage(from_number) ==
    <<Line("{PRACTICE_NAME} - After-hours DIRECTIONS requested", <<>>),
      Line("Caller: ", from_number),
      Line("Action: ", "Directions link sent.")>>

\* the closing line of the directions option: if ok ... else ...
DirectionsClosing(ok) == IF ok THEN TEXT_SENT ELSE DIRECTIONS_NOT_SENT

GeneralCalls(from_number, digit, environ, outcome, outcome2) ==
    IF digit = <<"1">>
    THEN Then(send_sms_safe(environ, from_number, DirectionsSms, outcome),
              notify_office_safe(OFFICE_MANAGER_NUMBER, environ,
                                 DirectionsMessage(from_number), outcome2))
    ELSE <<>>

\* the invalid selection redirected to the step's name instead of its route
GeneralHandleTwiml_StepName(digit, calls) ==
    IF digit = <<"1">>
    THEN end_options(<<Say("Directions will be sent by text message now.")>>,
                     DirectionsClosing(calls[1].ok))
    ELSE IF digit = <<"2">>
         THEN <<Say("Please leave a voicemail with your general question. Include your name and your callback number. Please do not include sensitive medical details. When you are finished, you may hang up."),
                Record(S_general)>>
         ELSE <<Say(SORRY_INVALID), Redirect("/twilio/business/general")>>

GeneralHandleTwiml(digit, calls) ==
    IF digit = <<"1">>
    THEN end_options(<<Say("Directions will be sent by text message now.")>>,
                     DirectionsClosing(calls[1].ok))
    ELSE IF digit = <<"2">>
         THEN <<Say("Please leave a voicemail with your general question. Include your name and your callback number. Please do not include sensitive medical details. When you are finished, you may hang up."),
                Record(S_general)>>
         ELSE <<Say(SORRY_INVALID), Redirect("/twilio/business/general-info")>>

business_general_handle(req, environ, outcome, outcome2) ==
    LET calls == GeneralCalls(req.From, req.Digits, environ, outcome, outcome2)
    IN Finish(req,
              SaveState(CALL_STATE, req.CallSid,
                        Put(StateWithFrom(CALL_STATE, req), "intent", S_general)),
              calls,
              GeneralHandleTwiml(req.Digits, calls))

(***************************************************************************)
(* Universal end navigation                                                *)
(***************************************************************************)
EndNavTwiml(digit) ==
    IF digit = <<"1">> THEN <<Redirect("/twilio/voice")>>
    ELSE IF digit = <<"2">> THEN <<Redirect("/twilio/business/menu")>>
    ELSE <<Say("Goodbye."), Hangup>>

\* end_nav recording the branch the caller returns to
end_nav_StoresPath(req) ==
    Finish(req,
           IF req.Digits = <<"2">>
           THEN SaveState(CALL_STATE, req.CallSid, Put(GetState(CALL_STATE, req.CallSid), "path", "business"))
           ELSE CALL_STATE,
           <<>>,
           EndNavTwiml(req.Digits))

end_nav(req) == Finish(req, CALL_STATE, <<>>, EndNavTwiml(req.Digits))

(***************************************************************************)
(* Voicemail callback                                                      *)
(***************************************************************************)
\* request.query_params.get("intent", "unknown").strip().lower()
IntentOf(param) == Lower(Strip(IF param = None THEN S_unknown ELSE param[1]))

NO_RECORDING_URL == "(no recording url)"

\* the fallback chosen by "is not None" instead of truthiness
RecLink_NotNone(recording_url) ==
    IF recording_url # None THEN <<recording_url[1], ".mp3">> ELSE <<NO_RECORDING_URL>>

\* rec_link = f"{recording_url}.mp3" if recording_url else "(no recording url)"
RecLink(recording_url) ==
    IF Truthy(recording_url) THEN <<recording_url[1], ".mp3">> ELSE <<NO_RECORDING_URL>>

\* header: the intent is appended, upper-cased, unless it is "unknown"
VoicemailHeader(intent) ==
    Line("{PRACTICE_NAME} - After-hours VOICEMAIL",
         IF intent # S_unknown THEN <<" ", "(">> \o Upper(intent) \o <<")">> ELSE <<>>)

\* the condition without its second disjunct
IncludesTriage_IntentOnly(st, intent) == intent = S_emergency

\* if intent == "emergency" or st.get("path") == "emergency"
IncludesTriage(st, intent) == intent = S_emergency \/ Get(st, "path") = Some("emergency")

VoicemailLines(st, from_number, recording_url, intent) ==
    LET lines == <<VoicemailHeader(intent),
                   Line("Caller: ", from_number),
                   Line("Voicemail: ", RecLink(recording_url))>>
    IN IF IncludesTriage(st, intent)
       THEN Insert(Insert(lines, 2, Line("Pain (1-9): ", PyFormatInt(Get(st, "pain_level")))),
                   3, Line("Swelling/Bleeding/Trauma: ", SymptomsText(st)))
       ELSE lines

RecordingState(st, recording_url, intent) ==
    Put(Put(st, "recording_url", recording_url), "intent", intent)

RECORDED == "Your message has been recorded."

recording_complete(req, environ, outcome) ==
    LET intent == IntentOf(req.intent)
        st == RecordingState(StateWithFrom(CALL_STATE, req), req.RecordingUrl, intent)
    IN Finish(req,
              SaveState(CALL_STATE, req.CallSid, st),
              <<notify_office_safe(OFFICE_MANAGER_NUMBER, environ,
                                   VoicemailLines(st, req.From, req.RecordingUrl, intent), outcome)>>,
              end_options(<<>>, RECORDED))

(***************************************************************************)
(* The service                                                             *)
(***************************************************************************)
\* the environments a send may find: every credential set, or one of them unset
\* or empty
AllSet == [TWILIO_ACCOUNT_SID |-> Some("AC1"), TWILIO_AUTH_TOKEN |-> Some("token"),
           TWILIO_PHONE_NUMBER |-> Some("+15550111")]

Environments == {AllSet,
                 [AllSet EXCEPT !.TWILIO_ACCOUNT_SID = None],
                 [AllSet EXCEPT !.TWILIO_AUTH_TOKEN = Some("")],
                 [AllSet EXCEPT !.TWILIO_PHONE_NUMBER = None]}

\* the calls whose webhooks are delivered: with the CallSid and From fields, or
\* without them
Calls == {[CallSid |-> "CA1", From |-> CALLER], [CallSid |-> "", From |-> ""]}

NoRequest == [req |-> Request(NoUrl, "", "", <<>>, None), status |-> 0, media_type |-> "",
              twiml |-> <<>>, calls |-> <<>>]

\* no other call: the webhooks of one call only are delivered
NoCall == [waiting |-> FALSE, call |-> [CallSid |-> "", From |-> ""], last |-> NoRequest,
           second |-> FALSE, served |-> 0]

\* no requests in parallel: each request is handled before the next arrives
NoPending == [snapshot |-> EmptyDict, reqs |-> <<>>]

\* the environment and the provider's outcomes for a request whose handler
\* notifies the office and, with toCaller, first sends to the caller: the
\* environment is read only by a send that has a destination to check, and the
\* outcomes matter only where the credentials are set
SendCases(notifies, toCaller) ==
    IF ~toCaller /\ (~notifies \/ OFFICE_MANAGER_NUMBER = "")
    THEN {[env |-> AllSet, o |-> "accept", o2 |-> "accept"]}
    ELSE {[env |-> AllSet, o |-> o, o2 |-> o2] :
             o \in ProviderOutcomes, o2 \in IF toCaller THEN ProviderOutcomes ELSE {"accept"}}
           \cup {[env |-> e, o |-> "accept", o2 |-> "accept"] : e \in Environments \ {AllSet}}

Init ==
    /\ CALL_STATE = EmptyDict
    /\ OFFICE_MANAGER_NUMBER \in {"", OFFICE}
    /\ call \in Calls
    /\ last = NoRequest
    /\ direct = 0
    /\ scenario = 0
    /\ parked = NoCall
    /\ pending = NoPending

Next ==
    \/ \E a \in ArrivalsAt("/twilio/voice") : twilio_voice(a.req) /\ Deliver(a)
    \/ \E a \in ArrivalsAt("/twilio/gate") : twilio_gate(a.req) /\ Deliver(a)
    \/ \E a \in ArrivalsAt("/twilio/emergency/pain") : emergency_pain(a.req) /\ Deliver(a)
    \/ \E a \in ArrivalsAt("/twilio/emergency/pain-save") : emergency_pain_save(a.req) /\ Deliver(a)
    \/ \E a \in ArrivalsAt("/twilio/emergency/symptoms") : emergency_symptoms(a.req) /\ Deliver(a)
    \/ \E a \in ArrivalsAt("/twilio/emergency/symptoms-save") :
          emergency_symptoms_save(a.req) /\ Deliver(a)
    \/ \E a \in ArrivalsAt("/twilio/emergency/route") : emergency_route(a.req) /\ Deliver(a)
    \/ \E a \in ArrivalsAt("/twilio/emergency/route-handle") :
          \E c \in SendCases(a.req.Digits = <<"1">>, FALSE) :
             emergency_route_handle(a.req, c.env, c.o) /\ Deliver(a)
    \/ \E a \in ArrivalsAt("/twilio/business/menu") : business_menu(a.req) /\ Deliver(a)
    \/ \E a \in ArrivalsAt("/twilio/business/menu-handle") : business_menu_handle(a.req) /\ Deliver(a)
    \/ \E a \in ArrivalsAt("/twilio/business/appointments") : business_appointments(a.req) /\ Deliver(a)
    \/ \E a \in ArrivalsAt("/twilio/business/appointments-handle") :
          \E c \in SendCases(a.req.Digits = <<"1">>, a.req.Digits = <<"2">>) :
             business_appointments_handle(a.req, c.env, c.o, c.o2) /\ Deliver(a)
    \/ \E a \in ArrivalsAt("/twilio/business/billing-voicemail") :
          business_billing_voicemail(a.req) /\ Deliver(a)
    \/ \E a \in ArrivalsAt("/twilio/business/general-info") : business_general_info(a.req) /\ Deliver(a)
    \/ \E a \in ArrivalsAt("/twilio/business/general-handle") :
          \E c \in SendCases(FALSE, a.req.Digits = <<"1">>) :
             business_general_handle(a.req, c.env, c.o, c.o2) /\ Deliver(a)
    \/ \E a \in ArrivalsAt("/twilio/end-nav") : end_nav(a.req) /\ Deliver(a)
    \/ \E a \in ArrivalsAt("/twilio/recording-complete") :
          \E c \in SendCases(TRUE, FALSE) : recording_complete(a.req, c.env, c.o) /\ Deliver(a)

Spec == Init /\ [][Next]_vars

(***************************************************************************)
(* Two calls in progress at once                                           *)
(***************************************************************************)
CALLER2 == "+15550102"

\* the second call: with its own CallSid, or without the field
SecondCalls == {[CallSid |-> "CA2", From |-> CALLER2], [CallSid |-> "", From |-> CALLER2]}

\* the next webhook the service receives belongs to the other call: the
\* provider resumes that call where its last document left it
SwitchCall ==
    /\ parked.waiting
    /\ call' = parked.call
    /\ last' = parked.last
    /\ parked' = [parked EXCEPT !.call = call, !.last = last, !.second = ~parked.second]
    /\ scenario' = 0
    /\ UNCHANGED <<CALL_STATE, OFFICE_MANAGER_NUMBER, direct, pending>>

\* both calls are driven by the provider alone
InitCalls ==
    /\ CALL_STATE = EmptyDict
    /\ OFFICE_MANAGER_NUMBER = OFFICE
    /\ call \in Calls
    /\ last = NoRequest
    /\ direct = MaxDirect
    /\ scenario = 0
    /\ parked \in {[NoCall EXCEPT !.waiting = TRUE, !.call = c] : c \in SecondCalls}
    /\ pending = NoPending

NextCalls == Next \/ SwitchCall

SpecCalls == InitCalls /\ [][NextCalls]_vars

(***************************************************************************)
(* Two requests of one call processed in parallel                          *)
(***************************************************************************)
\* the handlers that start with form = await request.form(): the event loop
\* can run another handler while the form is read, and nowhere else
AWAITS_FORM == DIGIT_PATHS \cup {"/twilio/emergency/pain", "/twilio/recording-complete"}

\* the session store of a call that has answered the triage questions
TriagedStore ==
    SaveState(EmptyDict, call.CallSid,
              SymptomsSaveState(PainSaveState(GateState(Put(EmptyDict, "from_number", call.From),
                                                        <<"1">>),
                                              <<"5">>),
                                <<"1">>))

\* a request in flight: what is left of its handler, and once the handler has
\* returned, the environment and provider outcomes it met and what it produced
InFlight(req) ==
    [req |-> req,
     phase |-> IF req.url \in AWAITS_FORM THEN "form" ELSE "body",
     cases |-> [env |-> AllSet, o |-> "accept", o2 |-> "accept"],
     calls |-> <<>>,
     twiml |-> <<>>]

\* the requests that can be in flight for the call
ParallelRequests == UNION {DirectRequests(path) : path \in ROUTES}

\* the environments and provider outcomes the handler of the request can meet
SendCasesOf(req) ==
    CASE req.url = "/twilio/emergency/route-handle" -> SendCases(req.Digits = <<"1">>, FALSE)
      [] req.url = "/twilio/business/appointments-handle" ->
            SendCases(req.Digits = <<"1">>, req.Digits = <<"2">>)
      [] req.url = "/twilio/business/general-handle" -> SendCases(FALSE, req.Digits = <<"1">>)
      [] req.url = "/twilio/recording-complete" -> SendCases(TRUE, FALSE)
      [] OTHER -> SendCases(FALSE, FALSE)

\* the route's handler, from its first statement after the form is read
Handle(req, c) ==
    \/ req.url = "/twilio/voice" /\ twilio_voice(req)
    \/ req.url = "/twilio/gate" /\ twilio_gate(req)
    \/ req.url = "/twilio/emergency/pain" /\ emergency_pain(req)
    \/ req.url = "/twilio/emergency/pain-save" /\ emergency_pain_save(req)
    \/ req.url = "/twilio/emergency/symptoms" /\ emergency_symptoms(req)
    \/ req.url = "/twilio/emergency/symptoms-save" /\ emergency_symptoms_save(req)
    \/ req.url = "/twilio/emergency/route" /\ emergency_route(req)
    \/ req.url = "/twilio/emergency/route-handle" /\ emergency_route_handle(req, c.env, c.o)
    \/ req.url = "/twilio/business/menu" /\ business_menu(req)
    \/ req.url = "/twilio/business/menu-handle" /\ business_menu_handle(req)
    \/ req.url = "/twilio/business/appointments" /\ business_appointments(req)
    \/ req.url = "/twilio/business/appointments-handle"
          /\ business_appointments_handle(req, c.env, c.o, c.o2)
    \/ req.url = "/twilio/business/billing-voicemail" /\ business_billing_voicemail(req)
    \/ req.url = "/twilio/business/general-info" /\ business_general_info(req)
    \/ req.url = "/twilio/business/general-handle"
          /\ business_general_handle(req, c.env, c.o, c.o2)
    \/ req.url = "/twilio/end-nav" /\ end_nav(req)
    \/ req.url = "/twilio/recording-complete" /\ recording_complete(req, c.env, c.o)

\* form = await request.form() returns: the handler is ready to continue
ReadForm(i) ==
    /\ pending.reqs[i].phase = "form"
    /\ pending' = [pending EXCEPT !.reqs[i].phase = "body"]
    /\ UNCHANGED <<CALL_STATE, OFFICE_MANAGER_NUMBER, call, last, direct, scenario, parked>>

\* the event loop runs the handler to its return statement: it has no await
\* after the form, and the SMS helpers block the loop while they send
RunBody(i) ==
    /\ pending.reqs[i].phase = "body"
    /\ \E c \in SendCasesOf(pending.reqs[i].req) :
          /\ Handle(pending.reqs[i].req, c)
          /\ pending' = [pending EXCEPT !.reqs[i] =
                            [@ EXCEPT !.phase = "done", !.cases = c, !.calls = last'.calls,
                                      !.twiml = last'.twiml]]
    /\ UNCHANGED <<direct, scenario, parked>>

\* two requests of the call are in flight, on an empty store or on the store
\* of a call that has answered the triage questions
InitParallel ==
    /\ OFFICE_MANAGER_NUMBER = OFFICE
    /\ call \in Calls
    /\ CALL_STATE \in {EmptyDict, TriagedStore}
    /\ last = NoRequest
    /\ direct = 0
    /\ scenario = 0
    /\ parked = NoCall
    /\ pending \in {[snapshot |-> CALL_STATE, reqs |-> <<InFlight(a), InFlight(b)>>] :
                       a \in ParallelRequests, b \in ParallelRequests}

NextParallel == \E i \in DOMAIN pending.reqs : ReadForm(i) \/ RunBody(i)

SpecParallel == InitParallel /\ [][NextParallel]_vars

(***************************************************************************)
(* Vocabulary of the properties                                            *)
(***************************************************************************)
\* the session record stored for a CallSid, empty when there is none
Session(store, call_sid) ==
    IF SessionKey(call_sid) \in DOMAIN store THEN store[SessionKey(call_sid)] ELSE EmptyDict

Handled(path) == last.status # 0 /\ last.req.url = path

\* the step that is being taken handles a request to this route
Handles(path) == last'.req.url = path

Body(i) == last.calls[i].body

HasLine(body, label) == \E i \in 1..Len(body) : body[i].label = label

HasLineWith(body, label, value) ==
    \E i \in 1..Len(body) : body[i].label = label /\ body[i].value = value

\* the document says this line and then redirects to this route, nothing else
Reprompts(twiml, line, path) == twiml = <<Say(line), Redirect(path)>>

\* the document closes with the end-navigation collection, "Goodbye." and a hangup
\* that the provider reaches only when no digit was collected
OffersNavigation(twiml) ==
    /\ Len(twiml) >= 3
    /\ twiml[Len(twiml) - 2] = Gather("/twilio/end-nav", END_NAV_PROMPT)
    /\ twiml[Len(twiml) - 1] = Say("Goodbye.")
    /\ twiml[Len(twiml)] = Hangup

HelperResults == {"Sent", "Missing destination number", "OFFICE_MANAGER_NUMBER not set",
                  "Missing env vars: TWILIO_ACCOUNT_SID / TWILIO_AUTH_TOKEN / TWILIO_PHONE_NUMBER",
                  "TwilioRestException: {e}", "Exception: {e}"}

(***************************************************************************)
(* C1                                                                      *)
(***************************************************************************)
\* C1: send_sms_safe and notify_office_safe never raise. Whatever the destination
\* (empty included), the credentials (unset or empty included) and the provider's
\* outcome (accept, TwilioRestException, another exception), every helper call a
\* handler made returned a (boolean, string) pair, the boolean is true only when
\* the provider accepted the dispatch, and the request was answered with a
\* document.
C1_HelpersNeverRaise ==
    /\ \A i \in 1..Len(last.calls) :
          /\ last.calls[i].raised = ""
          /\ last.calls[i].ok \in BOOLEAN
          /\ last.calls[i].err \in HelperResults
          /\ last.calls[i].ok => last.calls[i].provider = "accept"
          /\ last.calls[i].provider \in ProviderOutcomes \ {"accept"} => ~last.calls[i].ok
    /\ last.status \in {0, 200}

\* a send to the caller that reached the provider, which raised an exception
\* that is no TwilioRestException, and a notification that the provider accepted
C1_Witness ==
    /\ Len(last.calls) = 2
    /\ last.calls[1].fn = "send_sms_safe"
    /\ last.calls[1].provider = "ConnectionError"
    /\ ~last.calls[1].ok
    /\ last.calls[2].fn = "notify_office_safe"
    /\ last.calls[2].ok

(***************************************************************************)
(* C2                                                                      *)
(***************************************************************************)
\* the digit-handling steps that collect again on invalid input, each with the
\* route that speaks its prompt and the inputs it accepts
REPROMPTING == DIGIT_PATHS \ {"/twilio/end-nav"}

PromptOf(path) ==
    CASE path = "/twilio/gate" -> "/twilio/voice"
      [] path = "/twilio/emergency/pain-save" -> "/twilio/emergency/pain"
      [] path = "/twilio/emergency/symptoms-save" -> "/twilio/emergency/symptoms"
      [] path = "/twilio/emergency/route-handle" -> "/twilio/emergency/route"
      [] path = "/twilio/business/menu-handle" -> "/twilio/business/menu"
      [] path = "/twilio/business/appointments-handle" -> "/twilio/business/appointments"
      [] path = "/twilio/business/general-handle" -> "/twilio/business/general-info"
      [] OTHER -> path

AcceptedAt(path, d) ==
    CASE path = "/twilio/emergency/pain-save" -> PyInt(d) # None /\ PyInt(d)[1] \in 1..9
      [] path \in {"/twilio/business/menu-handle", "/twilio/business/appointments-handle"} ->
            d \in {<<"1">>, <<"2">>, <<"3">>}
      [] OTHER -> d \in {<<"1">>, <<"2">>}

ApologyAt(path) ==
    CASE path = "/twilio/emergency/pain-save" -> "Invalid entry. Please press a number from 1 to 9."
      [] path = "/twilio/emergency/symptoms-save" -> "Invalid entry. Press 1 for yes. Press 2 for no."
      [] OTHER -> "Sorry, that wasn't a valid selection."

\* the last request was to a digit-handling step with an input it does not accept
InvalidAt(path) == Handled(path) /\ ~AcceptedAt(path, last.req.Digits)

\* the document speaks first and then collects again at the step of this
\* route, and it leads nowhere else
CollectsAgain(twiml, path) ==
    /\ Len(twiml) >= 2
    /\ twiml[1].verb = "Say"
    /\ \E i \in 2..Len(twiml) :
          /\ twiml[i].verb \in {"Redirect", "Gather"}
          /\ twiml[i].target.path \in {path, PromptOf(path)}
    /\ \A i \in 1..Len(twiml) :
          /\ twiml[i].verb # "Hangup"
          /\ twiml[i].target.path \in {"", path, PromptOf(path)}

\* C2: at gate, pain-save, symptoms-save, route-handle, menu-handle,
\* appointments-handle and general-handle, every input outside the step's
\* accepted set (absent input included) is answered with the step's error line
\* followed by a redirect to the prompt of that same step, and nothing else; at
\* end-nav every input other than 1 and 2 is answered with "Goodbye." and a hangup.
C2_InvalidDigit ==
    /\ \A path \in REPROMPTING :
          InvalidAt(path) => Reprompts(last.twiml, ApologyAt(path), PromptOf(path))
    /\ InvalidAt("/twilio/end-nav") => last.twiml = <<Say("Goodbye."), Hangup>>

\* absent input at the business menu, answered with the menu's prompt again
C2_Witness ==
    /\ InvalidAt("/twilio/business/menu-handle")
    /\ last.req.Digits = <<>>
    /\ last.twiml[2] = Redirect("/twilio/business/menu")

\* C2 as stated: at every digit-handling step, end-nav included, an input
\* outside the accepted set is answered with a spoken line and the same step
\* again.
C2_Original == \A path \in DIGIT_PATHS : InvalidAt(path) => CollectsAgain(last.twiml, path)

(***************************************************************************)
(* C3                                                                      *)
(***************************************************************************)
\* C3: a request to pain-save stores the pain level and redirects to the
\* symptoms prompt if and only if its input parses as an integer from 1 to 9;
\* for every other input the answer is the error line and a redirect to the pain
\* prompt, and the pain level of the session is what it was before the request.
C3_PainSave ==
    [][Handles("/twilio/emergency/pain-save") =>
          LET n == PyInt(last'.req.Digits)
              before == Session(CALL_STATE, last'.req.CallSid)
              after == Session(CALL_STATE', last'.req.CallSid)
          IN IF n # None /\ n[1] >= 1 /\ n[1] <= 9
             THEN /\ Get(after, "pain_level") = n
                  /\ last'.twiml = <<Redirect("/twilio/emergency/symptoms")>>
             ELSE /\ Get(after, "pain_level") = Get(before, "pain_level")
                  /\ Reprompts(last'.twiml, "Invalid entry. Please press a number from 1 to 9.",
                               "/twilio/emergency/pain")]_vars

\* a two-digit number is posted after the caller entered 5: the 5 is kept
C3_Witness ==
    /\ Handled("/twilio/emergency/pain-save")
    /\ last.req.Digits = <<"1", "0">>
    /\ Get(Session(CALL_STATE, last.req.CallSid), "pain_level") = Some(5)
    /\ last.twiml[2] = Redirect("/twilio/emergency/pain")

(***************************************************************************)
(* C4                                                                      *)
(***************************************************************************)
\* C4: a request to symptoms-save stores the symptom flag (true for "1", false
\* for "2") and redirects to the route prompt if and only if its input is exactly
\* "1" or "2"; for every other input the answer is the error line and a redirect
\* to the symptoms prompt, and the symptom flag of the session is what it was
\* before the request.
C4_SymptomsSave ==
    [][Handles("/twilio/emergency/symptoms-save") =>
          LET d == last'.req.Digits
              before == Session(CALL_STATE, last'.req.CallSid)
              after == Session(CALL_STATE', last'.req.CallSid)
          IN IF d \in {<<"1">>, <<"2">>}
             THEN /\ Get(after, "symptoms_flag") = Some(d = <<"1">>)
                  /\ last'.twiml = <<Redirect("/twilio/emergency/route")>>
             ELSE /\ Get(after, "symptoms_flag") = Get(before, "symptoms_flag")
                  /\ Reprompts(last'.twiml, "Invalid entry. Press 1 for yes. Press 2 for no.",
                               "/twilio/emergency/symptoms")]_vars

\* the caller answered yes on an earlier pass and presses 3 now: the yes is kept
C4_Witness ==
    /\ Handled("/twilio/emergency/symptoms-save")
    /\ last.req.Digits = <<"3">>
    /\ Get(Session(CALL_STATE, last.req.CallSid), "symptoms_flag") = Some(TRUE)
    /\ last.twiml[2] = Redirect("/twilio/emergency/symptoms")

(***************************************************************************)
(* C5                                                                      *)
(***************************************************************************)
PAIN_LABEL == "Pain (1-9): "

SYMPTOMS_LABEL == "Swelling/Bleeding/Trauma: "

\* C5: the message recording-complete builds for the office has the pain-level
\* line and the symptom-flag line if and only if the declared intent (the intent
\* parameter as the handler reads it: trimmed and lower-cased, "unknown" when
\* absent) is "emergency" or the stored path of the session is "emergency";
\* otherwise it has neither.
C5_TriageLines ==
    Handled("/twilio/recording-complete") =>
       LET st == Session(CALL_STATE, last.req.CallSid)
           declared == IF last.req.intent = None THEN S_unknown
                       ELSE Lower(Strip(last.req.intent[1]))
           triage == declared = S_emergency \/ Get(st, "path") = Some("emergency")
       IN /\ Len(last.calls) = 1
          /\ HasLine(Body(1), PAIN_LABEL) <=> triage
          /\ HasLine(Body(1), SYMPTOMS_LABEL) <=> triage

\* a general voicemail left by a caller who had entered the emergency branch
C5_Witness ==
    /\ Handled("/twilio/recording-complete")
    /\ last.req.intent = Some(S_general)
    /\ Get(Session(CALL_STATE, last.req.CallSid), "path") = Some("emergency")
    /\ HasLine(Body(1), PAIN_LABEL)
    /\ HasLine(Body(1), SYMPTOMS_LABEL)

(***************************************************************************)
(* C6                                                                      *)
(***************************************************************************)
HasGather(twiml, action) ==
    \E i \in 1..Len(twiml) : twiml[i].verb = "Gather" /\ twiml[i].target.path = action

\* scenario B up to the request to route-handle: each input is answered with
\* the next prompt, and the notification carries the collected answers
ScenarioBSteps ==
    /\ scenario = 1 => Handled("/twilio/gate") /\ last.twiml = <<Redirect("/twilio/emergency/pain")>>
    /\ scenario = 2 => /\ Handled("/twilio/emergency/pain")
                       /\ HasGather(last.twiml, "/twilio/emergency/pain-save")
    /\ scenario = 3 => /\ Handled("/twilio/emergency/pain-save")
                       /\ last.twiml = <<Redirect("/twilio/emergency/symptoms")>>
    /\ scenario = 4 => /\ Handled("/twilio/emergency/symptoms")
                       /\ HasGather(last.twiml, "/twilio/emergency/symptoms-save")
    /\ scenario = 5 => /\ Handled("/twilio/emergency/symptoms-save")
                       /\ last.twiml = <<Redirect("/twilio/emergency/route")>>
    /\ scenario = 6 => /\ Handled("/twilio/emergency/route")
                       /\ HasGather(last.twiml, "/twilio/emergency/route-handle")
    /\ scenario = 7 => /\ Handled("/twilio/emergency/route-handle")
                       /\ Len(last.calls) = 1
                       /\ last.calls[1].fn = "notify_office_safe"
                       /\ HasLineWith(Body(1), PAIN_LABEL, "5")
                       /\ HasLineWith(Body(1), SYMPTOMS_LABEL, "Yes")

\* C6: for one call, gate(1), pain-save(5), symptoms-save(1), route-handle(1),
\* each request but the first being the provider following the previous answer,
\* lead through the pain prompt, the symptoms prompt and the route prompt in that
\* order; an office notification with pain 5 and symptoms "Yes" is then
\* attempted, and the answer of route-handle offers the navigation options
\* before its closing "Goodbye." and hangup, which the provider reaches only
\* when no navigation digit is collected.
C6_ScenarioB ==
    /\ ScenarioBSteps
    /\ scenario = 7 => OffersNavigation(last.twiml) /\ last.twiml[1].verb # "Hangup"

\* the scenario has run to its end
C6_Witness ==
    /\ scenario = 7
    /\ last.req.Digits = <<"1">>
    /\ HasGather(last.twiml, "/twilio/end-nav")

\* C6 as stated: the answer of route-handle ends with the navigation options,
\* not with a hangup.
C6_Original ==
    /\ ScenarioBSteps
    /\ scenario = 7 => /\ last.twiml[Len(last.twiml)].verb = "Gather"
                       /\ \A i \in 1..Len(last.twiml) : last.twiml[i].verb # "Hangup"

(***************************************************************************)
(* C7                                                                      *)
(***************************************************************************)
\* the routes whose handlers look the session up, each with the fields the
\* handler assigns
AssignedBy(path) ==
    CASE path \in {"/twilio/gate", "/twilio/emergency/pain", "/twilio/emergency/route-handle",
                   "/twilio/business/menu-handle"} -> {"from_number", "path"}
      [] path = "/twilio/emergency/pain-save" -> {"from_number", "pain_level"}
      [] path = "/twilio/emergency/symptoms-save" -> {"from_number", "symptoms_flag"}
      [] path \in {"/twilio/business/appointments-handle", "/twilio/business/general-handle"} ->
            {"from_number", "intent"}
      [] path = "/twilio/recording-complete" -> {"from_number", "recording_url", "intent"}
      [] OTHER -> {}

\* C7: a handler's session lookup never fails. For a call identifier with no
\* record yet (an absent identifier is looked up as "UNKNOWN_CALLSID") it creates
\* an empty record: after the request the record holds the fields this handler
\* assigned and no others. For an identifier that has a record it returns that
\* record: every field the handler did not assign is still there with its value.
\* The records of other identifiers are untouched.
C7_GetState ==
    [][AssignedBy(last'.req.url) # {} =>
          LET key == IF last'.req.CallSid = "" THEN "UNKNOWN_CALLSID" ELSE last'.req.CallSid
          IN /\ last'.status = 200
             /\ DOMAIN CALL_STATE' = DOMAIN CALL_STATE \cup {key}
             /\ CALL_STATE'[key].from_number = last'.req.From
             /\ \A k \in DOMAIN CALL_STATE \ {key} : CALL_STATE'[k] = CALL_STATE[k]
             /\ IF key \notin DOMAIN CALL_STATE
                THEN DOMAIN CALL_STATE'[key] \subseteq AssignedBy(last'.req.url)
                ELSE \A f \in DOMAIN CALL_STATE[key] \ AssignedBy(last'.req.url) :
                        /\ f \in DOMAIN CALL_STATE'[key]
                        /\ CALL_STATE'[key][f] = CALL_STATE[key][f]]_vars

\* requests without a call identifier share the record "UNKNOWN_CALLSID": it
\* holds the pain level of an earlier request when the symptom flag is stored
C7_Witness ==
    /\ Handled("/twilio/emergency/symptoms-save")
    /\ last.req.CallSid = ""
    /\ DOMAIN CALL_STATE = {"UNKNOWN_CALLSID"}
    /\ {"pain_level", "symptoms_flag", "path"} \subseteq DOMAIN CALL_STATE["UNKNOWN_CALLSID"]

(***************************************************************************)
(* C8                                                                      *)
(***************************************************************************)
\* the callback carried a recording locator
HasLocator == last.req.RecordingUrl # None /\ last.req.RecordingUrl[1] # ""

\* C8: the message recording-complete builds has the caller-number line with
\* the request's From value; its voicemail line is the literal
\* "(no recording url)" exactly when the callback carried no recording locator
\* (the field absent or empty), and the locator followed by ".mp3" when it did.
C8_RecordingLink ==
    Handled("/twilio/recording-complete") =>
       /\ Len(last.calls) = 1
       /\ HasLineWith(Body(1), "Caller: ", last.req.From)
       /\ HasLineWith(Body(1), "Voicemail: ", <<"(no recording url)">>) <=> ~HasLocator
       /\ HasLocator => HasLineWith(Body(1), "Voicemail: ", <<last.req.RecordingUrl[1], ".mp3">>)

\* a callback whose RecordingUrl field is present but empty
C8_Witness ==
    /\ Handled("/twilio/recording-complete")
    /\ last.req.RecordingUrl = Some("")
    /\ last.req.From = CALLER
    /\ HasLineWith(Body(1), "Voicemail: ", <<"(no recording url)">>)

(***************************************************************************)
(* C9                                                                      *)
(***************************************************************************)
\* C9: route-handle with digit 1 attempts one office notification and answers
\* with the same document whether the notification succeeded or failed: the
\* line that the intake information was sent, then the end-navigation prompt.
C9_SameResponse ==
    Handled("/twilio/emergency/route-handle") /\ last.req.Digits = <<"1">> =>
       /\ Len(last.calls) = 1
       /\ last.calls[1].fn = "notify_office_safe"
       /\ last.calls[1].ok \in BOOLEAN
       /\ last.twiml = <<Say("Your emergency intake information has been sent to the first available team member."),
                         Gather("/twilio/end-nav", END_NAV_PROMPT), Say("Goodbye."), Hangup>>

\* the provider rejected the notification
C9_Witness ==
    /\ Handled("/twilio/emergency/route-handle")
    /\ last.req.Digits = <<"1">>
    /\ last.calls[1].provider = "TwilioRestException"
    /\ ~last.calls[1].ok
    /\ last.twiml[1] = Say(EMERGENCY_SENT)

(***************************************************************************)
(* C10                                                                     *)
(***************************************************************************)
\* the last request chose the scheduling link or the directions link
LinkChosen ==
    \/ Handled("/twilio/business/appointments-handle") /\ last.req.Digits = <<"2">>
    \/ Handled("/twilio/business/general-handle") /\ last.req.Digits = <<"1">>

CouldNotSend ==
    IF last.req.url = "/twilio/business/appointments-handle"
    THEN "We could not send a text right now. Please call back during business hours."
    ELSE "We could not send directions by text right now."

\* C10: the scheduling-link option (appointments-handle, digit 2) and the
\* directions-link option (general-handle, digit 1) attempt one SMS to the
\* caller's own number and then one office notification, whatever the outcome of
\* the SMS; the closing line is "Text sent." exactly when the SMS to the caller
\* succeeded and the could-not-send line otherwise, whatever the outcome of the
\* notification; the end-navigation prompt follows.
C10_LinkActions ==
    LinkChosen =>
       /\ Len(last.calls) = 2
       /\ last.calls[1].fn = "send_sms_safe"
       /\ last.calls[1].to = last.req.From
       /\ last.calls[2].fn = "notify_office_safe"
       /\ last.calls[2].to = OFFICE_MANAGER_NUMBER
       /\ Len(last.twiml) = 5
       /\ last.twiml[2] = Say(IF last.calls[1].ok THEN "Text sent." ELSE CouldNotSend)
       /\ OffersNavigation(last.twiml)

\* the SMS to the caller failed at the provider and the office was notified
C10_Witness ==
    /\ Handled("/twilio/business/appointments-handle")
    /\ last.req.Digits = <<"2">>
    /\ last.calls[1].provider = "ConnectionError"
    /\ ~last.calls[1].ok
    /\ last.calls[2].ok
    /\ last.twiml[2] = Say(SCHEDULING_NOT_SENT)

(***************************************************************************)
(* C11                                                                     *)
(***************************************************************************)
\* C11: menu-handle with digit 2 answers with a redirect to the billing
\* voicemail step and nothing else, so the provider's next request is to that
\* step; the billing voicemail step answers with one spoken prompt followed by a
\* record directive whose callback is recording-complete with intent=billing,
\* and its document collects no digit.
C11_BillingDirect ==
    /\ Handled("/twilio/business/menu-handle") /\ last.req.Digits = <<"2">> =>
          /\ last.twiml = <<Redirect("/twilio/business/billing-voicemail")>>
          /\ \A r \in ProviderRequests : r.url = "/twilio/business/billing-voicemail"
          /\ ProviderRequests # {}
    /\ Handled("/twilio/business/billing-voicemail") =>
          /\ Len(last.twiml) = 2
          /\ last.twiml[1].verb = "Say"
          /\ last.twiml[2].verb = "Record"
          /\ last.twiml[2].target = [path |-> "/twilio/recording-complete", intent |-> Some(S_billing)]
          /\ ~\E i \in 1..Len(last.twiml) : last.twiml[i].verb = "Gather"

\* the billing voicemail step reached by a call that only followed the
\* service's documents, through the business menu
C11_Witness ==
    /\ Handled("/twilio/business/billing-voicemail")
    /\ direct = 0
    /\ Get(Session(CALL_STATE, last.req.CallSid), "path") = Some("business")
    /\ last.twiml[2] = Record(S_billing)

(***************************************************************************)
(* C12                                                                     *)
(***************************************************************************)
SESSION_FIELDS == {"from_number", "path", "intent", "pain_level", "symptoms_flag", "recording_url"}

\* the field of the session record holds a value that is neither unset nor empty
FieldSet(rec, f) ==
    /\ f \in DOMAIN rec
    /\ CASE f \in {"from_number", "path"} -> rec[f] # ""
         [] f = "intent" -> rec[f] # <<>>
         [] f = "recording_url" -> Truthy(rec[f])
         [] OTHER -> TRUE

\* C12: session fields are append-only within a call: a field that has been
\* set (caller number, path, intent, pain level, symptom flag, recording
\* reference) is set after every later step, to the same or to another value.
C12_AppendOnly ==
    [][\A k \in DOMAIN CALL_STATE : \A f \in SESSION_FIELDS :
          FieldSet(CALL_STATE[k], f) =>
             k \in DOMAIN CALL_STATE' /\ FieldSet(CALL_STATE'[k], f)]_vars

(***************************************************************************)
(* C13                                                                     *)
(***************************************************************************)
\* the step handles a webhook of the call being served (it is not the switch
\* to the other call)
HandlesRequest == call' = call /\ last' # last

\* the session record was written by a call other than the one whose request
\* the step handles: every handler that touches a record stores the call's
\* From in it, and the two calls have different From values
OfAnotherCall(rec) == rec.from_number # last'.req.From

\* C13: with two calls in progress, under every interleaving of their
\* webhooks, a step handled for one call neither looks up nor modifies a session
\* record of the other call, also when the requests of the calls carry no call
\* identifier.
C13_DisjointKeys ==
    [][HandlesRequest =>
          \A k \in DOMAIN CALL_STATE :
             OfAnotherCall(CALL_STATE[k]) =>
                /\ CALL_STATE'[k] = CALL_STATE[k]
                /\ AssignedBy(last'.req.url) # {} => k # SessionKey(last'.req.CallSid)]_vars

SingleDigit1to9(d) == Len(d) = 1 /\ d[1] \in {"1", "2", "3", "4", "5", "6", "7", "8", "9"}

\* C15: pain-save stores a pain level, and moves on to the symptoms prompt, only
\* when the submitted input is exactly one character from "1" to "9"; every
\* other input string re-prompts the pain step and stores nothing.
C15_SingleDigit ==
    [][Handles("/twilio/emergency/pain-save") /\ ~SingleDigit1to9(last'.req.Digits) =>
          /\ Get(Session(CALL_STATE', last'.req.CallSid), "pain_level")
                = Get(Session(CALL_STATE, last'.req.CallSid), "pain_level")
          /\ Reprompts(last'.twiml, "Invalid entry. Please press a number from 1 to 9.",
                       "/twilio/emergency/pain")]_vars

(***************************************************************************)
(* C16                                                                     *)
(***************************************************************************)
\* the session has a pain level or a symptom flag
HasTriage(rec) == Get(rec, "pain_level") # None \/ Get(rec, "symptoms_flag") # None

\* C16: the pain level and the symptom flag are set only on the emergency
\* branch: the pain level of a session changes only in a step of pain-save and
\* the symptom flag only in a step of symptoms-save, and when the call is driven
\* by the provider alone the path of the session is emergency at that step.
\* Both are kept when the path changes afterwards: a session that has them can
\* have path business, after navigating from an emergency outcome through
\* end-nav into the business menu.
C16_TriageOnEmergency ==
    [][\A sid \in CallSids :
          LET before == Session(CALL_STATE, sid)
              after == Session(CALL_STATE', sid)
          IN /\ Get(after, "pain_level") # Get(before, "pain_level") =>
                   /\ Handles("/twilio/emergency/pain-save")
                   /\ direct' = 0 => Get(after, "path") = Some("emergency")
             /\ Get(after, "symptoms_flag") # Get(before, "symptoms_flag") =>
                   /\ Handles("/twilio/emergency/symptoms-save")
                   /\ direct' = 0 => Get(after, "path") = Some("emergency")
             /\ HasTriage(before) => HasTriage(after)]_vars

\* a provider-driven call that went through the emergency branch, then through
\* end-nav into the business menu: the answers are kept under path business
C16_Witness ==
    /\ Handled("/twilio/business/menu-handle")
    /\ direct = 0
    /\ Get(Session(CALL_STATE, last.req.CallSid), "path") = Some("business")
    /\ Get(Session(CALL_STATE, last.req.CallSid), "pain_level") = Some(5)
    /\ Get(Session(CALL_STATE, last.req.CallSid), "symptoms_flag") = Some(TRUE)

\* C16 as stated: whenever a session has a pain level or a symptom flag, its
\* path is emergency.
C16_Original ==
    \A k \in DOMAIN CALL_STATE : HasTriage(CALL_STATE[k]) => Get(CALL_STATE[k], "path") = Some("emergency")

(***************************************************************************)
(* C17                                                                     *)
(***************************************************************************)
INTENTS == {S_appointment, S_billing, S_general, S_emergency}

\* the step handles a valid option of a sub-branch, or a voicemail callback
\* that carries an intent parameter
ChoosesSubBranch ==
    \/ Handles("/twilio/business/appointments-handle")
          /\ last'.req.Digits \in {<<"1">>, <<"2">>, <<"3">>}
    \/ Handles("/twilio/business/general-handle") /\ last'.req.Digits \in {<<"1">>, <<"2">>}
    \/ Handles("/twilio/recording-complete") /\ last'.req.intent # None

\* C17: the intent of a session is unset or one of appointment, billing,
\* general, emergency, and it is assigned only in a step where the caller chose a
\* valid option of a sub-branch, never on invalid input or from an absent intent
\* parameter.
C17_IntentEnum ==
    [][\A sid \in CallSids :
          LET before == Get(Session(CALL_STATE, sid), "intent")
              after == Get(Session(CALL_STATE', sid), "intent")
          IN /\ after # None => after[1] \in INTENTS
             /\ after # before => ChoosesSubBranch]_vars

(***************************************************************************)
(* C18                                                                     *)
(***************************************************************************)
\* the steps that start a voicemail capture, each with the intent it carries
CapturesAs(intent) ==
    CASE intent = S_emergency ->
            Handled("/twilio/emergency/route-handle") /\ last.req.Digits = <<"2">>
      [] intent = S_appointment ->
            Handled("/twilio/business/appointments-handle") /\ last.req.Digits = <<"3">>
      [] intent = S_billing -> Handled("/twilio/business/billing-voicemail")
      [] intent = S_general ->
            Handled("/twilio/business/general-handle") /\ last.req.Digits = <<"2">>
      [] OTHER -> FALSE

HasRecord(twiml) == \E i \in 1..Len(twiml) : twiml[i].verb = "Record"

\* C18: the steps that start a voicemail capture (route-handle option 2,
\* appointments-handle option 3, billing-voicemail, general-handle option 2), and
\* no others, answer with a record directive; its callback is recording-complete,
\* it carries the intent of the step (emergency, appointment, billing, general)
\* and its maximum duration is 180 seconds. After recording-complete has handled
\* a callback that carries one of these intents, the intent of the session is the
\* carried intent and its recording reference is the delivered locator.
C18_VoicemailCapture ==
    /\ \A intent \in INTENTS :
          CapturesAs(intent) =>
             /\ HasRecord(last.twiml)
             /\ \A i \in 1..Len(last.twiml) :
                   last.twiml[i].verb = "Record" =>
                      /\ last.twiml[i].target = [path |-> "/twilio/recording-complete",
                                                 intent |-> Some(intent)]
                      /\ last.twiml[i].n = 180
    /\ HasRecord(last.twiml) => \E intent \in INTENTS : CapturesAs(intent)
    /\ Handled("/twilio/recording-complete") /\ last.req.intent \in {Some(i) : i \in INTENTS} =>
          LET st == Session(CALL_STATE, last.req.CallSid)
          IN /\ Get(st, "intent") = last.req.intent
             /\ Get(st, "recording_url") = Some(last.req.RecordingUrl)

\* the callback of a billing voicemail, delivered by the provider
C18_Witness ==
    /\ Handled("/twilio/recording-complete")
    /\ direct = 0
    /\ last.req.intent = Some(S_billing)
    /\ Get(Session(CALL_STATE, last.req.CallSid), "intent") = Some(S_billing)
    /\ Get(Session(CALL_STATE, last.req.CallSid), "recording_url") = Some(Some(RECORDING))

(***************************************************************************)
(* C19                                                                     *)
(***************************************************************************)
\* C19: end-nav with digit 1 redirects to the entry disclaimer, with digit 2
\* to the business menu, and with any other or no input says "Goodbye." and hangs
\* up; in all three cases the session store is what it was before the request
\* and no notification is sent.
C19_EndNav ==
    [][Handles("/twilio/end-nav") =>
          /\ CALL_STATE' = CALL_STATE
          /\ last'.calls = <<>>
          /\ last'.twiml = CASE last'.req.Digits = <<"1">> -> <<Redirect("/twilio/voice")>>
                             [] last'.req.Digits = <<"2">> -> <<Redirect("/twilio/business/menu")>>
                             [] OTHER -> <<Say("Goodbye."), Hangup>>]_vars

\* after the emergency outcome the caller presses 2: the session still has
\* path emergency when end-nav has answered
C19_Witness ==
    /\ Handled("/twilio/end-nav")
    /\ last.req.Digits = <<"2">>
    /\ Get(Session(CALL_STATE, last.req.CallSid), "path") = Some("emergency")
    /\ last.twiml = <<Redirect("/twilio/business/menu")>>

(***************************************************************************)
(* C20                                                                     *)
(***************************************************************************)
\* C20: every request, whatever its input (any digit or none, no call
\* identifier or caller number, any outcome of the notifications), is answered
\* with a document (status 200, media type application/xml) that ends with a
\* hangup, a redirect or a record directive; every redirect, collection action
\* and recording callback it names is a route the service defines.
C20_ValidDocument ==
    last.status # 0 =>
       /\ last.status = 200
       /\ last.media_type = "application/xml"
       /\ Len(last.twiml) >= 1
       /\ last.twiml[Len(last.twiml)].verb \in {"Hangup", "Redirect", "Record"}
       /\ \A i \in 1..Len(last.twiml) :
             /\ last.twiml[i].verb \in {"Say", "Gather", "Redirect", "Record", "Hangup"}
             /\ IF last.twiml[i].verb \in {"Gather", "Redirect", "Record"}
                THEN last.twiml[i].target.path \in ROUTES
                ELSE last.twiml[i].target = NoUrl

\* a request without call identifier and caller number, whose notification the
\* provider refused, answered with the end-navigation document
C20_Witness ==
    /\ Handled("/twilio/recording-complete")
    /\ last.req.CallSid = ""
    /\ last.req.From = ""
    /\ last.calls[1].provider = "TwilioRestException"
    /\ last.status = 200
    /\ last.twiml[Len(last.twiml)] = Hangup

(***************************************************************************)
(* C21: two requests of one call in parallel                               *)
(***************************************************************************)
\* the routes whose handlers store into the session of the call
STORING_ROUTES ==
    {"/twilio/gate", "/twilio/emergency/pain", "/twilio/emergency/pain-save",
     "/twilio/emergency/symptoms-save", "/twilio/emergency/route-handle",
     "/twilio/business/menu-handle", "/twilio/business/appointments-handle",
     "/twilio/business/general-handle", "/twilio/recording-complete"}

\* the session of the call once the request has been handled alone on the store
SessionAfter(store, req) ==
    LET st == Put(Session(store, req.CallSid), "from_number", req.From)
    IN CASE req.url = "/twilio/gate" -> GateState(st, req.Digits)
         [] req.url = "/twilio/emergency/pain" -> Put(st, "path", "emergency")
         [] req.url = "/twilio/emergency/pain-save" -> PainSaveState(st, req.Digits)
         [] req.url = "/twilio/emergency/symptoms-save" -> SymptomsSaveState(st, req.Digits)
         [] req.url = "/twilio/emergency/route-handle" -> Put(st, "path", "emergency")
         [] req.url = "/twilio/business/menu-handle" -> Put(st, "path", "business")
         [] req.url = "/twilio/business/appointments-handle" -> Put(st, "intent", S_appointment)
         [] req.url = "/twilio/business/general-handle" -> Put(st, "intent", S_general)
         [] req.url = "/twilio/recording-complete" ->
               RecordingState(st, req.RecordingUrl, IntentOf(req.intent))
         [] OTHER -> Session(store, req.CallSid)

\* the store once the request has been handled alone on it
StoreAfter(store, req) ==
    IF req.url \in STORING_ROUTES
    THEN Put(store, SessionKey(req.CallSid), SessionAfter(store, req))
    ELSE store

\* the helper calls of the request handled alone on the store, in the
\* environment and with the provider outcomes that the request in flight met
CallsAfter(store, r) ==
    LET req == r.req
        st == SessionAfter(store, req)
    IN CASE req.url = "/twilio/emergency/route-handle" ->
               RouteHandleCalls(st, req.From, req.Digits, r.cases.env, r.cases.o)
         [] req.url = "/twilio/recording-complete" ->
               <<notify_office_safe(OFFICE_MANAGER_NUMBER, r.cases.env,
                                    VoicemailLines(st, req.From, req.RecordingUrl,
                                                   IntentOf(req.intent)),
                                    r.cases.o)>>
         [] req.url = "/twilio/business/appointments-handle" ->
               AppointmentsCalls(req.From, req.Digits, r.cases.env, r.cases.o, r.cases.o2)
         [] req.url = "/twilio/business/general-handle" ->
               GeneralCalls(req.From, req.Digits, r.cases.env, r.cases.o, r.cases.o2)
         [] OTHER -> <<>>

\* the store and the helper calls of request i then request j, one after the other
Sequential(i, j) ==
    LET first == pending.reqs[i]
        second == pending.reqs[j]
        between == StoreAfter(pending.snapshot, first.req)
    IN [store |-> StoreAfter(between, second.req),
        calls |-> [k \in {i, j} |-> IF k = i THEN CallsAfter(pending.snapshot, first)
                                    ELSE CallsAfter(between, second)]]

\* the store and the helper calls that the two requests in flight produced
Produced == [store |-> CALL_STATE, calls |-> [k \in {1, 2} |-> pending.reqs[k].calls]]

BothDone == pending.reqs # <<>> /\ \A k \in {1, 2} : pending.reqs[k].phase = "done"

ProviderDriven == direct = 0

\* the last request handled is emergency route-handle, or recording-complete
\* with intent=emergency
EmergencyOutcome ==
    \/ Handled("/twilio/emergency/route-handle")
    \/ Handled("/twilio/recording-complete") /\ IntentOf(last.req.intent) = S_emergency

\* C22: in a call driven only by the provider, when emergency route-handle or
\* recording-complete with intent=emergency has been handled, the session of
\* the call holds a pain level in 1..9 and a symptom flag, and no notification
\* of the step carries the pain level None or the symptom flag Unknown
C22_TriageStored ==
    ProviderDriven /\ EmergencyOutcome =>
       LET st == Session(CALL_STATE, last.req.CallSid)
       IN /\ Get(st, "pain_level") \in {Some(n) : n \in 1..9}
          /\ Get(st, "symptoms_flag") \in {Some(TRUE), Some(FALSE)}
          /\ \A i \in 1..Len(last.calls) :
                /\ ~HasLineWith(Body(i), PAIN_LABEL, PyFormatInt(None))
                /\ ~HasLineWith(Body(i), SYMPTOMS_LABEL, "Unknown")

\* C22 happens: a provider-driven call reaches recording-complete with
\* intent=emergency, and the voicemail notification carries the stored triage
C22_Witness ==
    /\ ProviderDriven
    /\ Handled("/twilio/recording-complete")
    /\ IntentOf(last.req.intent) = S_emergency
    /\ Get(Session(CALL_STATE, last.req.CallSid), "pain_level") = Some(2)
    /\ Len(last.calls) = 1
    /\ HasLine(Body(1), PAIN_LABEL)
    /\ HasLineWith(Body(1), SYMPTOMS_LABEL, "No")

====
